---- MODULE Spec2Model ----
(***************************************************************************)
(* A model of salt/states/file.py: the reconcilers symlink, absent,        *)
(* managed, directory and recurse acting on a small filesystem.           *)
(*                                                                         *)
(* The filesystem is a map from the paths of a small tree to entries.      *)
(* Every reconciler is a pure operator from the filesystem before the call *)
(* (and the call's arguments and environment) to the filesystem after it,  *)
(* the value it returns (or the exception it raises) and the calls it made *)
(* on the permission provider.  A behaviour starts from a filesystem and a *)
(* declared state and applies that declared state again and again, as a    *)
(* minion does on every run; one action per reconciler applies it.         *)
(***************************************************************************)
EXTENDS Integers, Sequences, FiniteSets, TLC

VARIABLES
    fs,      \* the filesystem: path -> entry
    fs0,     \* the filesystem the behaviour started from
    test,    \* __opts__['test'], the dry-run flag
    want,    \* the declared state: the reconciler, its arguments, and the
             \* environment its calls run in
    ncalls,  \* how many times the declared state has been applied
    pre,     \* the filesystem as it was when the last call started
    outcome, \* what the last call returned (or that it raised)
    prev,    \* what the call before the last returned
    plog     \* the permission-provider calls the last call made, in order

vars == <<fs, fs0, test, want, ncalls, pre, outcome, prev, plog>>

(***************************************************************************)
(* Bounds.                                                                 *)
(***************************************************************************)
\* file contents are numbered 1..MaxContent
MaxContent == 4
\* the declared state is applied at most MaxCalls times
MaxCalls == 2

(***************************************************************************)
(* Paths.  The tree is  /p  /p/n  /p/n/a  /p/n/tmp  /p/n/s  /p/n/s/b ;      *)
(* the root "/" always exists.  N is the name every call is given.         *)
(***************************************************************************)
Root == "/"
P == "/p"
N == "/p/n"
A == "/p/n/a"
R == "/p/n/tmp"
S == "/p/n/s"
B == "/p/n/s/b"
Paths == {P, N, A, R, S, B}

\* os.path.dirname on the paths of the tree
dirname(path) ==
    CASE path = P -> Root
      [] path = N -> P
      [] path = A -> N
      [] path = R -> N
      [] path = S -> N
      [] path = B -> S
      [] OTHER -> Root

\* os.path.join
join(dir, rel) == dir \o "/" \o rel

\* path q lies strictly below path d
RECURSIVE IsUnder(_, _)
IsUnder(q, d) ==
    IF q = Root THEN FALSE
    ELSE dirname(q) = d \/ IsUnder(dirname(q), d)

(***************************************************************************)
(* Values.                                                                 *)
(***************************************************************************)
None == "None"            \* Python's None (an argument left out)
NoMode == 0               \* the mode argument left out (false like None)
NoValue == "False"        \* what a provider getter gives for a missing path
ProcUser == "root"        \* owner of whatever the process creates
ProcGroup == "root"
DirMode == "755"          \* mode of a directory os.makedirs creates
CacheMode == "644"        \* mode of a file in the minion's file cache
TmpMode == "600"          \* mode of a file tempfile.mkstemp creates
Contents == 1..MaxContent

\* Symlink targets: names of paths in a directory that does not exist, so a
\* link to one of them is dangling (os.path.exists is False for it, and a
\* write through it fails).
Targets == {"/x/t1", "/x/t2"}

NoEntry ==
    [kind |-> "none", content |-> 0, target |-> "",
     user |-> "", group |-> "", mode |-> ""]
FileEntry(c, u, g, m) ==
    [kind |-> "file", content |-> c, target |-> "",
     user |-> u, group |-> g, mode |-> m]
DirEntry(u, g, m) ==
    [kind |-> "dir", content |-> 0, target |-> "",
     user |-> u, group |-> g, mode |-> m]
LinkEntry(t) ==
    [kind |-> "link", content |-> 0, target |-> t,
     user |-> "", group |-> "", mode |-> ""]
\* a fifo, socket or device node
OtherEntry ==
    [kind |-> "other", content |-> 0, target |-> "",
     user |-> ProcUser, group |-> ProcGroup, mode |-> CacheMode]

(***************************************************************************)
(* os.path predicates.  isfile, isdir and exists follow symbolic links;    *)
(* every link of the model is dangling, so they are False for a link.      *)
(***************************************************************************)
islink(f, path) == path # Root /\ f[path].kind = "link"
isfile(f, path) == path # Root /\ f[path].kind = "file"
isdir(f, path) == path = Root \/ f[path].kind = "dir"
exists(f, path) == path = Root \/ f[path].kind \in {"file", "dir", "other"}
lexists(f, path) == path = Root \/ f[path].kind # "none"

(***************************************************************************)
(* Filesystem primitives.  Each gives [ok, fs]: ok = FALSE means the       *)
(* primitive raised (OSError / IOError); fs is the filesystem it left.     *)
(***************************************************************************)
Ok(f) == [ok |-> TRUE, fs |-> f]
Err(f) == [ok |-> FALSE, fs |-> f]

\* os.mkdir
os_mkdir(f, path) ==
    IF path = Root \/ lexists(f, path) \/ ~isdir(f, dirname(path))
    THEN Err(f)
    ELSE Ok([f EXCEPT ![path] = DirEntry(ProcUser, ProcGroup, DirMode)])

\* os.makedirs: create the missing ancestors, then the leaf
RECURSIVE os_makedirs(_, _)
os_makedirs(f, path) ==
    LET head == dirname(path)
        up == IF path # Root /\ head # Root /\ ~exists(f, head)
              THEN os_makedirs(f, head)
              ELSE Ok(f)
    IN  IF up.ok THEN os_mkdir(up.fs, path) ELSE Err(up.fs)

\* os.remove
\* an unlink that returns without removing
os_remove_keep(f, path) == Ok(f)

os_remove(f, path) ==
    IF path # Root /\ f[path].kind \in {"file", "link", "other"}
    THEN Ok([f EXCEPT ![path] = NoEntry])
    ELSE Err(f)

\* a removal of the directory entry that leaves what is under it
shutil_rmtree_shallow(f, path) ==
    IF isdir(f, path) /\ path # Root
    THEN Ok([f EXCEPT ![path] =
               IF \E q \in Paths : IsUnder(q, path) /\ f[q].kind # "none"
               THEN @ ELSE NoEntry])
    ELSE Err(f)

\* shutil.rmtree
shutil_rmtree(f, path) ==
    IF isdir(f, path) /\ path # Root
    THEN Ok([q \in Paths |-> IF q = path \/ IsUnder(q, path)
                             THEN NoEntry ELSE f[q]])
    ELSE Err(f)

\* os.symlink(target, name)
os_symlink_swapped(f, target, name) ==
    IF lexists(f, name) \/ ~isdir(f, dirname(name))
    THEN Err(f)
    ELSE Ok([f EXCEPT ![name] = LinkEntry(name)])

os_symlink(f, target, name) ==
    IF lexists(f, name) \/ ~isdir(f, dirname(name))
    THEN Err(f)
    ELSE Ok([f EXCEPT ![name] = LinkEntry(target)])

\* shutil.copy(sfn, dst): into the directory if dst is one; the content is
\* written and the source's mode bits copied (copyfile + copymode)
\* a copy that creates a missing file but leaves an existing file's bytes
shutil_copy_keep(f, sfn, dst) ==
    LET d == IF isdir(f, dst) THEN join(dst, sfn.base) ELSE dst
    IN  IF d \notin Paths THEN Err(f)
        ELSE IF f[d].kind = "file"
        THEN Ok([f EXCEPT ![d].mode = sfn.mode])
        ELSE IF f[d].kind = "none" /\ isdir(f, dirname(d))
        THEN Ok([f EXCEPT ![d] =
                    FileEntry(sfn.content, ProcUser, ProcGroup, sfn.mode)])
        ELSE Err(f)

shutil_copy(f, sfn, dst) ==
    LET d == IF isdir(f, dst) THEN join(dst, sfn.base) ELSE dst
    IN  IF d \notin Paths THEN Err(f)
        ELSE IF f[d].kind = "file"
        THEN Ok([f EXCEPT ![d].content = sfn.content, ![d].mode = sfn.mode])
        ELSE IF f[d].kind = "none" /\ isdir(f, dirname(d))
        THEN Ok([f EXCEPT ![d] =
                    FileEntry(sfn.content, ProcUser, ProcGroup, sfn.mode)])
        ELSE Err(f)

(***************************************************************************)
(* _makedirs (file.py 12-17)                                               *)
(***************************************************************************)
\* a helper that creates nothing
_makedirs_skip(f, path) == Ok(f)

_makedirs(f, path) ==
    IF ~isdir(f, dirname(path))
    THEN os_makedirs(f, dirname(path))
    ELSE Ok(f)

(***************************************************************************)
(* Results.  A call ends by returning ret (out = "return"), by returning   *)
(* nothing (out = "none": the function fell off its end) or by raising     *)
(* (out = "raise").  The comment is the sequence of the fragments that     *)
(* were assigned or appended to ret['comment']; changes is the set of      *)
(* <<key, value>> pairs of ret['changes'].                                 *)
(***************************************************************************)
NewRet(name) ==
    [out |-> "return", name |-> name, changes |-> {},
     result |-> TRUE, comment |-> <<>>]

Put(changes, key, val) ==
    {c \in changes : c[1] # key} \cup {<<key, val>>}
Keys(changes) == {c[1] : c \in changes}
HasFragment(comment, frag) ==
    \E i \in 1..Len(comment) : comment[i] = frag

Return(f, r, log) == [fs |-> f, ret |-> r, log |-> log]
Raise(f, name, log) ==
    [fs |-> f,
     ret |-> [out |-> "raise", name |-> name, changes |-> {},
              result |-> FALSE, comment |-> <<>>],
     log |-> log]
ReturnNothing(f, name, log) ==
    [fs |-> f,
     ret |-> [out |-> "none", name |-> name, changes |-> {},
              result |-> FALSE, comment |-> <<>>],
     log |-> log]

(***************************************************************************)
(* symlink (file.py 82-126)                                                *)
(***************************************************************************)
symlink(f, name, target, force, makedirs) ==
    LET ret0 == NewRet(name)
    IN
    IF ~isdir(f, dirname(name))
    THEN LET m == IF makedirs THEN _makedirs(f, name) ELSE Ok(f)
         IN  IF ~m.ok THEN Raise(m.fs, name, <<>>)
             ELSE Return(m.fs,
                    [ret0 EXCEPT !.result = FALSE,
                                 !.comment = <<"Directory " \o dirname(name)
                                               \o " for symlink is not present">>],
                    <<>>)
    ELSE
    LET \* lines 96-120: early = the call has returned, else go on with fs
        st == IF islink(f, name)
              THEN IF f[name].target # target
                   THEN [early |-> FALSE, fs |-> os_remove(f, name).fs, ret |-> ret0]
                   ELSE [early |-> TRUE, fs |-> f,
                         ret |-> [ret0 EXCEPT !.comment =
                                    <<"The symlink " \o name \o " is present">>]]
              ELSE IF isfile(f, name)
              THEN IF force
                   THEN [early |-> FALSE, fs |-> os_remove(f, name).fs, ret |-> ret0]
                   ELSE [early |-> TRUE, fs |-> f,
                         ret |-> [ret0 EXCEPT !.result = FALSE, !.comment =
                                    <<"File exists where the symlink " \o name
                                      \o " should be">>]]
              ELSE IF isdir(f, name)
              THEN IF force
                   THEN [early |-> FALSE, fs |-> shutil_rmtree(f, name).fs, ret |-> ret0]
                   ELSE [early |-> TRUE, fs |-> f,
                         ret |-> [ret0 EXCEPT !.result = FALSE, !.comment =
                                    <<"Direcotry exists where the symlink " \o name
                                      \o " should be">>]]
              ELSE [early |-> FALSE, fs |-> f, ret |-> ret0]
    IN  IF st.early THEN Return(st.fs, st.ret, <<>>)
        ELSE IF ~exists(st.fs, name)
        THEN LET l == os_symlink(st.fs, target, name)
             IN  IF ~l.ok THEN Raise(l.fs, name, <<>>)
                 ELSE Return(l.fs,
                        [st.ret EXCEPT !.comment = <<"Created new symlink " \o name>>,
                                       !.changes = Put(@, "new", name)],
                        <<>>)
        ELSE ReturnNothing(st.fs, name, <<>>)

(***************************************************************************)
(* absent (file.py 128-157).  rmfails: the removal raises an I/O error.    *)
(***************************************************************************)
absent(f, name, rmfails) ==
    LET ret0 == NewRet(name)
    IN
    IF isfile(f, name) \/ islink(f, name)
    THEN LET r == IF rmfails THEN Err(f) ELSE os_remove(f, name)
         IN  IF r.ok
             THEN Return(r.fs,
                    [ret0 EXCEPT !.comment = <<"Removed file " \o name>>,
                                 !.changes = Put(@, "removed", name)],
                    <<>>)
             ELSE Return(r.fs,
                    [ret0 EXCEPT !.result = FALSE,
                                 !.comment = <<"Failed to remove file " \o name>>],
                    <<>>)
    ELSE IF isdir(f, name)
    THEN LET r == IF rmfails THEN Err(f) ELSE shutil_rmtree(f, name)
         IN  IF r.ok
             THEN Return(r.fs,
                    [ret0 EXCEPT !.comment = <<"Removed directory " \o name>>,
                                 !.changes = Put(@, "removed", name)],
                    <<>>)
             ELSE Return(r.fs,
                    [ret0 EXCEPT !.result = FALSE,
                                 !.comment = <<"Failed to remove directory " \o name>>],
                    <<>>)
    ELSE Return(f, [ret0 EXCEPT !.comment = <<"File " \o name \o " is not present">>],
                <<>>)

(***************************************************************************)
(* The permission provider: __salt__['file.get_user'], get_group,          *)
(* get_mode, chown and set_mode.  The getters stat the path (following     *)
(* links).  fail is the set of attributes ("user", "group", "mode") whose  *)
(* application the provider rejects: a rejected attribute keeps its value. *)
(***************************************************************************)
get_user(f, name) == IF exists(f, name) THEN f[name].user ELSE NoValue
get_group(f, name) == IF exists(f, name) THEN f[name].group ELSE NoValue
get_mode(f, name) == IF exists(f, name) THEN f[name].mode ELSE NoValue

chown(f, name, user, group, fail) ==
    IF ~exists(f, name) THEN f
    ELSE [f EXCEPT
            ![name].user = IF user # None /\ "user" \notin fail THEN user ELSE @,
            ![name].group = IF group # None /\ "group" \notin fail THEN group ELSE @]

set_mode(f, name, mode, fail) ==
    IF ~exists(f, name) \/ "mode" \in fail THEN f
    ELSE [f EXCEPT ![name].mode = mode]

\* the entries of the provider log: the call, with the value a getter gave
\* or the values a setter was given
GetUser(v) == <<"get_user", v, "">>
GetGroup(v) == <<"get_group", v, "">>
GetMode(v) == <<"get_mode", v, "">>
Chown(user, group) == <<"chown", user, group>>
SetMode(mode) == <<"set_mode", mode, "">>

(***************************************************************************)
(* The permission stage, written three times in file.py: managed with the  *)
(* file present (215-253), managed with a new file (289-328), directory    *)
(* (374-413).  The three differ in how a failed user and a failed group    *)
(* are reported: userMsg and groupMsg are the fragments, and userAssigns    *)
(* says that the user fragment is assigned to the comment (=) instead of   *)
(* appended (+=).  Each step gives [fs, ret, log].                         *)
(***************************************************************************)
\* 226-232: owner and group are applied together, unless in dry-run
\* an application that a pending group alone does not trigger
chown_step_owner_only(f, ret, name, user, group, cuser, cgroup, tst, fail) ==
    IF cuser /\ ~tst
    THEN [fs |-> chown(f, name, user, group, fail), ret |-> ret,
          log |-> <<Chown(user, group)>>]
    ELSE [fs |-> f, ret |-> ret, log |-> <<>>]

chown_step(f, ret, name, user, group, cuser, cgroup, tst, fail) ==
    IF (cuser \/ cgroup) /\ ~tst
    THEN [fs |-> chown(f, name, user, group, fail), ret |-> ret,
          log |-> <<Chown(user, group)>>]
    ELSE [fs |-> f, ret |-> ret, log |-> <<>>]

\* 233-241: the mode is applied unless in dry-run, then read again
mode_step_unverified(f, ret, name, mode, lmode, tst, fail) ==
    IF mode # None /\ mode # lmode
    THEN LET f1 == IF ~tst THEN set_mode(f, name, mode, fail) ELSE f
         IN  [fs |-> f1, ret |-> [ret EXCEPT !.changes = Put(@, "mode", mode)],
              log |-> IF ~tst THEN <<SetMode(mode)>> ELSE <<>>]
    ELSE [fs |-> f, ret |-> ret, log |-> <<>>]

mode_step(f, ret, name, mode, lmode, tst, fail) ==
    IF mode # None /\ mode # lmode
    THEN LET f1 == IF ~tst THEN set_mode(f, name, mode, fail) ELSE f
             now == get_mode(f1, name)
         IN  [fs |-> f1,
              ret |-> IF mode # now
                      THEN [ret EXCEPT !.result = FALSE,
                                       !.comment = Append(@, "Mode not changed ")]
                      ELSE [ret EXCEPT !.changes = Put(@, "mode", mode)],
              log |-> (IF ~tst THEN <<SetMode(mode)>> ELSE <<>>)
                      \o <<GetMode(now)>>]
    ELSE [fs |-> f, ret |-> ret, log |-> <<>>]

\* 242-247: the owner is read again
user_step(f, ret, name, user, cuser, userMsg, userAssigns) ==
    IF user # None
    THEN LET now == get_user(f, name)
         IN  [fs |-> f,
              ret |-> IF user # now
                      THEN [ret EXCEPT !.result = FALSE,
                                       !.comment = IF userAssigns THEN <<userMsg>>
                                                   ELSE Append(@, userMsg)]
                      ELSE IF cuser
                      THEN [ret EXCEPT !.changes = Put(@, "user", user)]
                      ELSE ret,
              log |-> <<GetUser(now)>>]
    ELSE [fs |-> f, ret |-> ret, log |-> <<>>]

\* 248-253: the group is read again
group_step(f, ret, name, group, cgroup, groupMsg) ==
    IF group # None
    THEN LET now == get_group(f, name)
         IN  [fs |-> f,
              ret |-> IF group # now
                      THEN [ret EXCEPT !.result = FALSE,
                                       !.comment = Append(@, groupMsg)]
                      ELSE IF cgroup
                      THEN [ret EXCEPT !.changes = Put(@, "group", group)]
                      ELSE ret,
              log |-> <<GetGroup(now)>>]
    ELSE [fs |-> f, ret |-> ret, log |-> <<>>]

\* 215-253
check_perms(f, ret, name, user, group, mode, tst, fail, userMsg, groupMsg, userAssigns) ==
    LET luser == get_user(f, name)
        lgroup == get_group(f, name)
        lmode == get_mode(f, name)
        cuser == user # None /\ user # luser
        cgroup == group # None /\ group # lgroup
        s1 == chown_step(f, ret, name, user, group, cuser, cgroup, tst, fail)
        s2 == mode_step(s1.fs, s1.ret, name, mode, lmode, tst, fail)
        s3 == user_step(s2.fs, s2.ret, name, user, cuser, userMsg, userAssigns)
        s4 == group_step(s3.fs, s3.ret, name, group, cgroup, groupMsg)
    IN  [fs |-> s4.fs, ret |-> s4.ret,
         log |-> <<GetUser(luser), GetGroup(lgroup), GetMode(lmode)>>
                 \o s1.log \o s2.log \o s3.log \o s4.log]

\* the closing comment (255-261, 330-336, 415-421); what is "File " or
\* "Directory "
final_comment(ret, name, tst, what) ==
    LET r1 == IF ret.comment = <<>>
              THEN [ret EXCEPT !.comment = <<what \o name \o " updated">>]
              ELSE ret
    IN  IF tst
        THEN [r1 EXCEPT !.comment = <<what \o name \o " not updated">>]
        ELSE IF r1.changes = {} /\ r1.result
        THEN [r1 EXCEPT !.comment = <<what \o name \o " is in the correct state">>]
        ELSE r1

(***************************************************************************)
(* directory (file.py 339-422)                                             *)
(***************************************************************************)
directory_perms(f, ret, name, user, group, mode, tst, fail) ==
    check_perms(f, ret, name, user, group, mode, tst, fail,
                "Failed to change user to " \o user \o " ",
                "Failed to change group to " \o group \o " ",
                TRUE)

directory(f, name, user, group, modeArg, makedirs, tst, fail) ==
    LET mode == IF modeArg # NoMode THEN ToString(modeArg) ELSE None
        ret0 == NewRet(name)
    IN
    IF isfile(f, name)
    THEN Return(f, [ret0 EXCEPT !.result = FALSE, !.comment =
                      <<"Specifed location " \o name \o " exists and is a file">>],
                <<>>)
    ELSE IF ~isdir(f, name) /\ ~isdir(f, dirname(name)) /\ ~makedirs
    THEN Return(f, [ret0 EXCEPT !.result = FALSE, !.comment =
                      <<"No directory to create " \o name \o " in">>],
                <<>>)
    ELSE
    LET \* 357-361: the parent is made when the directory and it are missing
        m1 == IF ~isdir(f, name) /\ ~isdir(f, dirname(name))
              THEN _makedirs(f, name) ELSE Ok(f)
        \* 366-368
        m2 == IF ~m1.ok THEN m1
              ELSE IF ~isdir(m1.fs, name)
              THEN LET m == _makedirs(m1.fs, name)
                   IN  IF m.ok THEN os_makedirs(m.fs, name) ELSE m
              ELSE m1
    IN  IF ~m2.ok THEN Raise(m2.fs, name, <<>>)
        ELSE IF ~isdir(m2.fs, name)
        THEN Return(m2.fs, [ret0 EXCEPT !.result = FALSE, !.comment =
                              <<"Failed to create directory " \o name>>],
                    <<>>)
        ELSE LET p == directory_perms(m2.fs, ret0, name, user, group, mode, tst, fail)
             IN  Return(p.fs, final_comment(p.ret, name, tst, "Directory "), p.log)

(***************************************************************************)
(* The content source: __salt__['cp.hash_file'] and ['cp.cache_file'].     *)
(* "salt://a" is a file of the master with content 1; any other reference  *)
(* is not found.  A digest is the algorithm's name with the content: two   *)
(* contents have the same digest iff they are equal.                       *)
(***************************************************************************)
FoundSource == "salt://a"
BinSource == "salt://bin"
Sources == {FoundSource, BinSource, "salt://none"}
SourceContent == 1
BinContent == 3
ContentOf(source) == IF source = BinSource THEN BinContent ELSE SourceContent
\* the hash type the master reports for a source
HashTypeOf(source) == IF source = BinSource THEN "sha1" ELSE "md5"

\* a digest ignoring the hash type asked for
hexdigest_md5(hash_type, content) == "md5:" \o ToString(content)

\* getattr(hashlib, hash_type)(data).hexdigest()
hexdigest(hash_type, content) == hash_type \o ":" \o ToString(content)

\* the master's answer: the hash type and the digest of the served file
cp_hash_file(source) ==
    IF source \in {FoundSource, BinSource}
    THEN [found |-> TRUE, hash_type |-> HashTypeOf(source),
          hsum |-> HashTypeOf(source) \o ":" \o ToString(ContentOf(source))]
    ELSE [found |-> FALSE, hash_type |-> "", hsum |-> ""]

\* the cached artifact: its content, its mode and its base name
cp_cache_file(source) ==
    IF source \in {FoundSource, BinSource}
    THEN [found |-> TRUE, content |-> ContentOf(source), mode |-> CacheMode, base |-> "a"]
    ELSE [found |-> FALSE, content |-> 0, mode |-> "", base |-> ""]

(***************************************************************************)
(* Templates.  Rendering gives another content than the template's own;    *)
(* the rendered file is a fresh temporary file.  renv is the renderer's    *)
(* environment: "ok", "import" (the template library cannot be imported)   *)
(* or "error" (rendering raises).                                          *)
(***************************************************************************)
Render(content) == (content % MaxContent) + 1
RenderEnvs == {"ok", "import", "error"}

\* _mako (file.py 28-53)
_mako(sfn, renv) ==
    IF renv = "import"
    THEN [result |-> FALSE, data |-> "Failed to import jinja"]
    ELSE IF renv = "error"
    THEN [result |-> FALSE, data |-> "Traceback (most recent call last)"]
    ELSE [result |-> TRUE,
          data |-> [found |-> TRUE, content |-> Render(sfn.content),
                    mode |-> TmpMode, base |-> "tmp"]]

\* _jinja (file.py 55-80)
_jinja(sfn, renv) ==
    IF renv = "import"
    THEN [result |-> FALSE, data |-> "Failed to import jinja"]
    ELSE IF renv = "error"
    THEN [result |-> FALSE, data |-> "Traceback (most recent call last)"]
    ELSE [result |-> TRUE,
          data |-> [found |-> TRUE, content |-> Render(sfn.content),
                    mode |-> TmpMode, base |-> "tmp"]]

\* globals().has_key(t_key) and globals()[t_key](sfn), for the template
\* kinds of the model
Templates == {"jinja", "mako", "bogus"}
has_key(t_key) == t_key \in {"_jinja", "_mako"}
call_global(t_key, sfn, renv) ==
    IF t_key = "_mako" THEN _mako(sfn, renv) ELSE _jinja(sfn, renv)

(***************************************************************************)
(* _is_bin (file.py 19-26): a NUL byte among the first 2048 bytes.         *)
(* NulAt is the offset of a content's first NUL byte, -1 if it has none.   *)
(***************************************************************************)
BinReadLen == 2048
NulAt(content) ==
    CASE content = 3 -> 0
      [] content = 4 -> BinReadLen
      [] OTHER -> -1
\* a check that reads one byte more
_is_bin_2049(content) == NulAt(content) >= 0 /\ NulAt(content) <= BinReadLen

_is_bin(content) == NulAt(content) >= 0 /\ NulAt(content) < BinReadLen

\* '\n'.join(difflib.unified_diff(slines, nlines)): empty for equal inputs
unified_diff(scontent, ncontent) ==
    IF scontent = ncontent THEN ""
    ELSE "--- " \o ToString(scontent) \o " +++ " \o ToString(ncontent)

(***************************************************************************)
(* managed (file.py 159-337)                                               *)
(***************************************************************************)
managed_perms(f, ret, name, user, group, mode, tst, fail) ==
    check_perms(f, ret, name, user, group, mode, tst, fail,
                "Failed to change user to " \o user \o " ",
                "Failed to change group to " \o group \o " ",
                TRUE)

managed_new_perms(f, ret, name, user, group, mode, tst, fail) ==
    check_perms(f, ret, name, user, group, mode, tst, fail,
                "User not changed ", "Group not changed ", FALSE)

NotFound(ret, source) ==
    [ret EXCEPT !.result = FALSE,
                !.comment = <<"Source file " \o source \o " not found">>]

\* 177-262: the target file exists
managed_present(f, ret0, name, source, user, group, mode, template, tst, fail, renv) ==
    LET source_sum == cp_hash_file(source)
        name_sum == hexdigest(source_sum.hash_type, f[name].content)
        sfn0 == cp_cache_file(source)
        t_key == "_" \o template
        data == IF template # None
                THEN call_global(t_key, sfn0, renv)
                ELSE [result |-> TRUE, data |-> sfn0]
        sfn == data.data
        diff == IF _is_bin(sfn.content) \/ _is_bin(f[name].content)
                THEN "Replace binary file"
                ELSE unified_diff(sfn.content, f[name].content)
        replace == source_sum.hsum # name_sum
        f1 == IF replace /\ ~tst THEN shutil_copy(f, sfn, name).fs ELSE f
        ret1 == IF replace THEN [ret0 EXCEPT !.changes = Put(@, "diff", diff)]
                ELSE ret0
        p == managed_perms(f1, ret1, name, user, group, mode, tst, fail)
    IN
    IF ~source_sum.found THEN Return(f, NotFound(ret0, source), <<>>)
    ELSE IF replace /\ ~sfn0.found THEN Return(f, NotFound(ret0, source), <<>>)
    \* 194-198: data is read without having been bound
    ELSE IF replace /\ template # None /\ ~has_key(t_key) THEN Raise(f, name, <<>>)
    ELSE IF replace /\ ~data.result
    THEN Return(f, [ret0 EXCEPT !.result = FALSE, !.comment = <<data.data>>], <<>>)
    ELSE Return(p.fs, final_comment(p.ret, name, tst, "File "), p.log)

\* 281-282: a new file is recorded under the key diff
new_file_change_new(ret) == [ret EXCEPT !.changes = Put(@, "new", "New file")]

new_file_change(ret) == [ret EXCEPT !.changes = Put(@, "diff", "New file")]

\* 263-337: the target file is not there
managed_new(f, ret0, name, source, user, group, mode, template, makedirs, tst, fail, renv) ==
    LET sfn0 == cp_cache_file(source)
        t_key == "_" \o template
        rendered == template # None /\ has_key(t_key)
        data == IF rendered THEN call_global(t_key, sfn0, renv)
                ELSE [result |-> template = None, data |-> sfn0]
        sfn == data.data
        ret1 == new_file_change(ret0)
        m == IF ~tst /\ makedirs THEN _makedirs(f, name) ELSE Ok(f)
        c == IF tst \/ ~m.ok THEN m ELSE shutil_copy(m.fs, sfn, name)
        p == managed_new_perms(c.fs, ret1, name, user, group, mode, tst, fail)
    IN
    IF ~sfn0.found THEN Return(f, NotFound(ret0, source), <<>>)
    \* 271-280: data.get('result') is false for the empty data too
    ELSE IF ~data.result THEN Return(f, [ret0 EXCEPT !.result = FALSE], <<>>)
    ELSE IF ~c.ok THEN Raise(c.fs, name, <<>>)
    ELSE Return(p.fs, final_comment(p.ret, name, tst, "File "), p.log)

managed(f, name, source, user, group, modeArg, template, makedirs, tst, fail, renv) ==
    LET mode == IF modeArg # NoMode THEN ToString(modeArg) ELSE None
        ret0 == NewRet(name)
    IN  IF isfile(f, name)
        THEN managed_present(f, ret0, name, source, user, group, mode,
                             template, tst, fail, renv)
        ELSE managed_new(f, ret0, name, source, user, group, mode,
                         template, makedirs, tst, fail, renv)

(***************************************************************************)
(* recurse (file.py 424-468).  __salt__['file.cache_dir'] gives the cached *)
(* files of the source directory; rel is a file's path relative to the     *)
(* cache root  cachedir/files/env.                                         *)
(***************************************************************************)
TreeSource == "salt://tree"
TreeSources == {TreeSource, "salt://empty"}

file_cache_dir(source) ==
    IF source = TreeSource
    THEN << [rel |-> "a", content |-> 1, mode |-> CacheMode, base |-> "a"],
            [rel |-> "s/b", content |-> MaxContent, mode |-> CacheMode, base |-> "b"] >>
    ELSE << >>

\* 443-467: the loop, from the i-th cached file on
RECURSIVE recurse_files(_, _, _, _, _)
recurse_files(f, ret, name, files, i) ==
    IF i > Len(files) THEN Return(f, ret, <<>>)
    ELSE
    LET fn_ == files[i]
        dest == join(name, fn_.rel)
        m == IF ~isdir(f, dirname(dest)) THEN _makedirs(f, dest) ELSE Ok(f)
        srch == hexdigest("md5", fn_.content)
        dsth == hexdigest("md5", m.fs[dest].content)
    IN  IF ~m.ok THEN Raise(m.fs, name, <<>>)
        ELSE IF isfile(m.fs, dest)
        THEN IF srch # dsth
             THEN LET c == shutil_copy(m.fs, fn_, dest)
                  IN  IF ~c.ok THEN Raise(c.fs, name, <<>>)
                      ELSE recurse_files(c.fs,
                              [ret EXCEPT !.changes = Put(@, dest, "updated")],
                              name, files, i + 1)
             ELSE recurse_files(m.fs, ret, name, files, i + 1)
        ELSE LET c == shutil_copy(m.fs, fn_, dest)
             IN  IF ~c.ok THEN Raise(c.fs, name, <<>>)
                 ELSE recurse_files(c.fs,
                         [ret EXCEPT !.changes = Put(@, dest, "new")],
                         name, files, i + 1)

\* a root check that clears the occupant before it reports it
recurse_clearing(f, name, source) ==
    LET ret0 == NewRet(name)
    IN
    IF ~isdir(f, name) /\ exists(f, name)
    THEN Return(os_remove(f, name).fs,
                [ret0 EXCEPT !.result = FALSE, !.comment =
                      <<"The path " \o name \o " exists and is not a directory">>],
                <<>>)
    ELSE LET m == IF ~isdir(f, name) THEN os_makedirs(f, name) ELSE Ok(f)
         IN  IF ~m.ok THEN Raise(m.fs, name, <<>>)
             ELSE recurse_files(m.fs, ret0, name, file_cache_dir(source), 1)

recurse(f, name, source) ==
    LET ret0 == NewRet(name)
    IN
    IF ~isdir(f, name) /\ exists(f, name)
    THEN Return(f, [ret0 EXCEPT !.result = FALSE, !.comment =
                      <<"The path " \o name \o " exists and is not a directory">>],
                <<>>)
    ELSE LET m == IF ~isdir(f, name) THEN os_makedirs(f, name) ELSE Ok(f)
         IN  IF ~m.ok THEN Raise(m.fs, name, <<>>)
             ELSE recurse_files(m.fs, ret0, name, file_cache_dir(source), 1)

(***************************************************************************)
(* The state machine.                                                      *)
(***************************************************************************)
Users == {None, "app"}
Groups == {None, "app"}
Modes == {NoMode, 600, 644}
Attrs == {"user", "group", "mode"}

\* A declared state: kind names the reconciler, the next fields are its
\* arguments, and fail, renv, rmfails are the environment of its calls (the
\* attributes the permission provider rejects, the renderer's environment,
\* whether a removal raises an I/O error).
Decl ==
    [kind |-> "", name |-> N, source |-> "", target |-> "",
     user |-> None, group |-> None, mode |-> NoMode, template |-> None,
     makedirs |-> FALSE, force |-> FALSE, fail |-> {}, renv |-> "ok",
     rmfails |-> FALSE]

\* the attributes a declared state asks for
Wanted(user, group, mode) ==
    {a \in Attrs : \/ a = "user" /\ user # None
                   \/ a = "group" /\ group # None
                   \/ a = "mode" /\ mode # NoMode}

\* the renderer environments that matter to a template kind
RenderEnvsOf(template) ==
    IF template # None /\ has_key("_" \o template) THEN RenderEnvs ELSE {"ok"}

ManagedDecls ==
    { [Decl EXCEPT !.kind = "managed", !.source = t[1], !.user = t[2],
                   !.group = t[3], !.mode = t[4], !.template = t[5],
                   !.makedirs = t[6], !.renv = t[7], !.fail = t[8]] :
      t \in { u \in Sources \X Users \X Groups \X Modes \X ({None} \cup Templates)
                    \X BOOLEAN \X RenderEnvs \X SUBSET Attrs :
                /\ u[7] \in RenderEnvsOf(u[5])
                /\ u[8] \subseteq Wanted(u[2], u[3], u[4]) } }

DirectoryDecls ==
    { [Decl EXCEPT !.kind = "directory", !.user = t[1], !.group = t[2],
                   !.mode = t[3], !.makedirs = t[4], !.fail = t[5]] :
      t \in { u \in Users \X Groups \X Modes \X BOOLEAN \X SUBSET Attrs :
                u[5] \subseteq Wanted(u[1], u[2], u[3]) } }

SymlinkDecls ==
    { [Decl EXCEPT !.kind = "symlink", !.target = t[1], !.force = t[2],
                   !.makedirs = t[3]] :
      t \in Targets \X BOOLEAN \X BOOLEAN }

AbsentDecls ==
    { [Decl EXCEPT !.kind = "absent", !.rmfails = b] : b \in BOOLEAN }

RecurseDecls ==
    { [Decl EXCEPT !.kind = "recurse", !.source = s] : s \in TreeSources }

Decls == ManagedDecls \cup DirectoryDecls \cup SymlinkDecls
         \cup AbsentDecls \cup RecurseDecls

\* The initial filesystems: every shape of the tree, with the owner, group
\* and mode a fresh entry gets.
InitFs ==
    LET PE == {NoEntry, DirEntry(ProcUser, ProcGroup, DirMode),
               FileEntry(1, ProcUser, ProcGroup, CacheMode)}
        NE == {NoEntry, DirEntry(ProcUser, ProcGroup, DirMode), OtherEntry}
              \cup {FileEntry(c, ProcUser, ProcGroup, CacheMode) : c \in Contents}
              \cup {LinkEntry(t) : t \in Targets}
        FE == {NoEntry}
              \cup {FileEntry(c, ProcUser, ProcGroup, CacheMode) : c \in Contents}
        SE == {NoEntry, DirEntry(ProcUser, ProcGroup, DirMode)}
    IN  { [q \in Paths |->
             CASE q = P -> t[1] [] q = N -> t[2] [] q = A -> t[3]
               [] q = S -> t[4] [] q = B -> t[5] [] OTHER -> NoEntry] :
          t \in { u \in PE \X NE \X FE \X SE \X FE :
                    /\ u[2].kind # "none" => u[1].kind = "dir"
                    /\ u[3].kind # "none" => u[2].kind = "dir"
                    /\ u[4].kind # "none" => u[2].kind = "dir"
                    /\ u[5].kind # "none" => u[4].kind = "dir" } }

NoOutcome ==
    [out |-> "init", name |-> N, changes |-> {}, result |-> TRUE, comment |-> <<>>]

Init ==
    /\ fs \in InitFs
    /\ fs0 = fs
    /\ test \in BOOLEAN
    /\ want \in Decls
    /\ ncalls = 0
    /\ pre = fs
    /\ outcome = NoOutcome
    /\ prev = NoOutcome
    /\ plog = <<>>

\* one more call of the declared reconciler, which gave r
Apply(r) ==
    /\ ncalls < MaxCalls
    /\ ncalls' = ncalls + 1
    /\ pre' = fs
    /\ fs' = r.fs
    /\ prev' = outcome
    /\ outcome' = r.ret
    /\ plog' = r.log
    /\ UNCHANGED <<fs0, test, want>>

Symlink ==
    /\ want.kind = "symlink"
    /\ Apply(symlink(fs, want.name, want.target, want.force, want.makedirs))

Absent ==
    /\ want.kind = "absent"
    /\ Apply(absent(fs, want.name, want.rmfails))

Managed ==
    /\ want.kind = "managed"
    /\ Apply(managed(fs, want.name, want.source, want.user, want.group,
                     want.mode, want.template, want.makedirs, test,
                     want.fail, want.renv))

Directory ==
    /\ want.kind = "directory"
    /\ Apply(directory(fs, want.name, want.user, want.group, want.mode,
                       want.makedirs, test, want.fail))

Recurse ==
    /\ want.kind = "recurse"
    /\ Apply(recurse(fs, want.name, want.source))

Next == Managed \/ Directory \/ Symlink \/ Absent \/ Recurse

Spec == Init /\ [][Next]_vars

(***************************************************************************)
(* What the claims speak of.                                               *)
(***************************************************************************)
Called == ncalls >= 1
Returned == outcome.out = "return"
\* the call reached its permission stage (which starts with three reads)
PermStage == Len(plog) >= 3
\* the mode the declared state asks for, as the reconciler compares it
WantMode == IF want.mode # NoMode THEN ToString(want.mode) ELSE None
Desired(a) ==
    CASE a = "user" -> want.user [] a = "group" -> want.group [] OTHER -> WantMode
\* what the permission stage read at its start
ReadAtStart(a) ==
    CASE a = "user" -> plog[1][2] [] a = "group" -> plog[2][2] [] OTHER -> plog[3][2]
\* the attribute's value after the call
Actual(a) ==
    CASE a = "user" -> get_user(fs, N) [] a = "group" -> get_group(fs, N)
      [] OTHER -> get_mode(fs, N)
\* the attributes that were pending: desired, and different from the actual
Pending == {a \in Attrs : Desired(a) # None /\ Desired(a) # ReadAtStart(a)}
\* the attributes that did not reach the desired value
Failed == {a \in Attrs : Desired(a) # None /\ Desired(a) # Actual(a)}
FailFragments(a) ==
    CASE a = "mode" -> {"Mode not changed "}
      [] a = "user" -> {"User not changed ",
                        "Failed to change user to " \o want.user \o " "}
      [] OTHER -> {"Group not changed ",
                   "Failed to change group to " \o want.group \o " "}
PermKind == want.kind \in {"managed", "directory"}

(***************************************************************************)
(* C1.  Idempotence: when the same call is applied twice in a row with     *)
(* dry-run off and nothing else touching the filesystem, the second call   *)
(* returns empty changes and result = true.  Stated for a first call that  *)
(* returned result = true, on a name that was not a directory.             *)
(***************************************************************************)
C1_Idempotent ==
    (ncalls >= 2 /\ ~test /\ prev.out = "return" /\ prev.result /\ ~isdir(fs0, N))
        => (Returned /\ outcome.changes = {} /\ outcome.result)

(***************************************************************************)
(* C2.  Dry-run non-mutation: with the dry-run flag set no call changes    *)
(* the filesystem or any owner, group or mode.                             *)
(***************************************************************************)
C2_DryRunNoMutation == (Called /\ test) => fs = pre

(***************************************************************************)
(* C3.  Dry-run permission reporting: in dry-run, when managed or          *)
(* directory finds a desired owner, group or mode that differs from the    *)
(* actual one, every pending attribute is listed in changes, nothing is    *)
(* read again after the three reads that open the stage, and the call does *)
(* not report result = false.                                              *)
(***************************************************************************)
C3_DryRunPermReporting ==
    (Called /\ test /\ PermKind /\ PermStage /\ Pending # {})
        => /\ Returned
           /\ Pending \subseteq Keys(outcome.changes)
           /\ Len(plog) = 3
           /\ outcome.result

(***************************************************************************)
(* C4.  Symlink creation: with nothing at N and N's parent a directory,    *)
(* symlink(N, T) makes N a link to T, returns result = true and records    *)
(* the key new; the call after a call that created the link returns        *)
(* result = true, empty changes and 'The symlink N is present', and leaves *)
(* the filesystem as it was.                                               *)
(***************************************************************************)
C4_SymlinkCreation ==
    /\ (Called /\ want.kind = "symlink" /\ pre[N].kind = "none" /\ isdir(pre, P))
          => /\ Returned /\ outcome.result
             /\ <<"new", N>> \in outcome.changes
             /\ fs = [pre EXCEPT ![N] = LinkEntry(want.target)]
    /\ (ncalls >= 2 /\ want.kind = "symlink" /\ prev.out = "return"
        /\ "new" \in Keys(prev.changes))
          => /\ Returned /\ outcome.result
             /\ outcome.changes = {}
             /\ outcome.comment = <<"The symlink " \o N \o " is present">>
             /\ fs = pre
             /\ fs[N] = LinkEntry(want.target)

C4_Witness ==
    /\ ncalls = 2 /\ want.kind = "symlink"
    /\ fs0[N].kind = "none" /\ isdir(fs0, P)
    /\ "new" \in Keys(prev.changes)
    /\ outcome.changes = {}
    /\ fs[N] = LinkEntry(want.target)

(***************************************************************************)
(* C5.  Permission partial failure: with dry-run off, when owner and mode  *)
(* both differ from the desired values and the provider leaves the mode    *)
(* unchanged but applies the owner, managed and directory return           *)
(* result = false, changes with user and without mode, and a comment with  *)
(* the fragment 'Mode not changed '.                                       *)
(***************************************************************************)
C5_Case ==
    /\ Called /\ ~test /\ PermKind /\ PermStage
    /\ "user" \in Pending /\ "mode" \in Pending
    /\ "mode" \in want.fail /\ "user" \notin want.fail

C5_PartialFailure ==
    C5_Case
        => /\ Returned /\ ~outcome.result
           /\ "user" \in Keys(outcome.changes)
           /\ "mode" \notin Keys(outcome.changes)
           /\ HasFragment(outcome.comment, "Mode not changed ")

C5_Witness ==
    /\ C5_Case /\ want.kind = "managed" /\ isfile(pre, N)
    /\ Chown(want.user, want.group) \in {plog[i] : i \in 1..Len(plog)}
    /\ SetMode(WantMode) \in {plog[i] : i \in 1..Len(plog)}
    /\ get_user(fs, N) = want.user /\ get_mode(fs, N) # WantMode
    /\ ~outcome.result

(***************************************************************************)
(* C6.  Failure comments accumulate: with dry-run off, for every           *)
(* combination of mode, owner and group that fail in one managed or        *)
(* directory call, the comment holds a failure fragment for each of them.  *)
(***************************************************************************)
C6_FailuresAccumulate ==
    (Called /\ ~test /\ PermKind /\ PermStage)
        => \A a \in Failed :
              \E frag \in FailFragments(a) : HasFragment(outcome.comment, frag)

(***************************************************************************)
(* C7.  New-file result.  As claimed: managed with dry-run off, no file at *)
(* the path, the source found and a desired mode whose application         *)
(* succeeds returns changes {new: 'New file', mode: <mode>} and the        *)
(* comment '<path> updated'.  As the code has it: the key is diff and the  *)
(* comment is 'File <path> updated'.                                       *)
(***************************************************************************)
C7_Case ==
    /\ Called /\ ~test /\ want.kind = "managed"
    /\ pre[N].kind = "none"
    /\ want.source = FoundSource
    /\ want.user = None /\ want.group = None /\ want.mode # NoMode
    /\ SetMode(WantMode) \in {plog[i] : i \in 1..Len(plog)}
    /\ "mode" \notin want.fail

C7_NewFileResult ==
    C7_Case
        => /\ Returned /\ outcome.result
           /\ outcome.changes = {<<"diff", "New file">>, <<"mode", WantMode>>}
           /\ outcome.comment = <<"File " \o N \o " updated">>

C7_AsClaimed ==
    C7_Case
        => /\ Returned
           /\ outcome.changes = {<<"new", "New file">>, <<"mode", WantMode>>}
           /\ outcome.comment = <<N \o " updated">>

C7_Witness ==
    /\ C7_Case /\ ncalls = 1
    /\ isfile(fs, N) /\ fs[N].mode = WantMode
    /\ <<"mode", WantMode>> \in outcome.changes

(***************************************************************************)
(* C8.  Failures are captured, never raised: every call ends in a returned *)
(* result, and a result with result = false has a non-empty comment.       *)
(***************************************************************************)
C8_FailuresCaptured ==
    Called => (Returned /\ (~outcome.result => outcome.comment # <<>>))

(***************************************************************************)
(* C9.  Template failure handling: in both branches of managed (file       *)
(* present with another digest, file absent) an unregistered template      *)
(* kind, a missing renderer dependency and a failing render each make the  *)
(* call return result = false with the detail in the comment, and nothing  *)
(* is copied.                                                              *)
(***************************************************************************)
C9_TemplateFailure ==
    (/\ Called /\ want.kind = "managed" /\ want.source = FoundSource
     /\ want.template # None
     /\ (~has_key("_" \o want.template) \/ want.renv # "ok")
     /\ \/ isfile(pre, N) /\ pre[N].content # SourceContent
        \/ pre[N].kind = "none")
        => /\ Returned /\ ~outcome.result
           /\ outcome.comment # <<>>
           /\ fs = pre

(***************************************************************************)
(* C10.  ChangeSet invariant, with dry-run off: the returned changes are   *)
(* non-empty if and only if the call changed the filesystem or an owner,   *)
(* group or mode.  Stated for calls other than managed on a name that is a *)
(* directory.                                                              *)
(***************************************************************************)
C10_ChangesIffMutation ==
    (Called /\ ~test /\ Returned /\ ~(want.kind = "managed" /\ isdir(pre, N)))
        => ((outcome.changes # {}) <=> (fs # pre))

(***************************************************************************)
(* C11.  Recurse fidelity: in a recurse call that went through the cached  *)
(* files, each cached file's destination is its relative path joined to    *)
(* the destination root; a destination file with other content is          *)
(* overwritten and recorded as 'updated', one with the same content is     *)
(* left untouched and not recorded, a missing one is copied and recorded   *)
(* as 'new'; afterwards each destination file has its source's content.    *)
(***************************************************************************)
Cached == {file_cache_dir(want.source)[i] : i \in 1..Len(file_cache_dir(want.source))}
DestOf(fn_) == join(N, fn_.rel)

C11_Case == Called /\ want.kind = "recurse" /\ Returned /\ outcome.result

C11_RecurseFidelity ==
    C11_Case
        => \A fn_ \in Cached :
             LET dest == DestOf(fn_)
             IN  /\ dest \in Paths /\ IsUnder(dest, N)
                 /\ (isfile(pre, dest) /\ pre[dest].content # fn_.content)
                        => <<dest, "updated">> \in outcome.changes
                 /\ (isfile(pre, dest) /\ pre[dest].content = fn_.content)
                        => (fs[dest] = pre[dest] /\ dest \notin Keys(outcome.changes))
                 /\ pre[dest].kind = "none" => <<dest, "new">> \in outcome.changes
                 /\ isfile(fs, dest) /\ fs[dest].content = fn_.content

C11_Witness ==
    /\ C11_Case /\ ncalls = 1 /\ want.source = TreeSource
    /\ isfile(pre, A) /\ pre[A].content # fs[A].content
    /\ pre[B].kind = "none" /\ isfile(fs, B)
    /\ outcome.changes = {<<A, "updated">>, <<B, "new">>}

(***************************************************************************)
(* C12.  Binary policy: in managed on an existing file whose digest        *)
(* differs from the source's, changes['diff'] is 'Replace binary file'     *)
(* when the source artifact or the destination has a NUL byte among its    *)
(* first 2048 bytes, and the unified diff of the two otherwise (a NUL byte *)
(* at offset 2048 or later does not count).                                *)
(***************************************************************************)
\* the artifact managed works with: the cached source, or its rendering
Artifact ==
    IF want.template = None THEN ContentOf(want.source)
    ELSE Render(ContentOf(want.source))
NulInHead(content) == NulAt(content) \in 0..(BinReadLen - 1)

C12_Case ==
    /\ Called /\ want.kind = "managed" /\ want.source \in {FoundSource, BinSource}
    /\ isfile(pre, N) /\ pre[N].content # ContentOf(want.source)
    /\ (want.template = None \/ (has_key("_" \o want.template) /\ want.renv = "ok"))

C12_BinaryPolicy ==
    C12_Case
        => /\ Returned
           /\ (NulInHead(Artifact) \/ NulInHead(pre[N].content))
                 => <<"diff", "Replace binary file">> \in outcome.changes
           /\ ~(NulInHead(Artifact) \/ NulInHead(pre[N].content))
                 => <<"diff", unified_diff(Artifact, pre[N].content)>> \in outcome.changes

C12_Witness ==
    /\ C12_Case /\ ncalls = 1
    /\ want.source = FoundSource /\ want.template = None
    /\ NulAt(pre[N].content) = 0
    /\ <<"diff", "Replace binary file">> \in outcome.changes

(***************************************************************************)
(* C13.  Absent convergence: absent on a regular file, symlink or          *)
(* directory whose removal succeeds returns result = true with             *)
(* changes['removed'] set and nothing is left at the name; when the        *)
(* removal raises it returns result = false, a 'Failed to remove ...'      *)
(* comment and empty changes; when nothing is at the name it returns       *)
(* result = true, empty changes and 'File <name> is not present'.          *)
(***************************************************************************)
C13_Case == Called /\ want.kind = "absent"

C13_AbsentConvergence ==
    C13_Case
        => /\ (pre[N].kind \in {"file", "link", "dir"} /\ ~want.rmfails)
                 => /\ Returned /\ outcome.result
                    /\ outcome.changes = {<<"removed", N>>}
                    /\ \A q \in Paths : (q = N \/ IsUnder(q, N)) => fs[q].kind = "none"
           /\ (pre[N].kind \in {"file", "link", "dir"} /\ want.rmfails)
                 => /\ Returned /\ ~outcome.result
                    /\ outcome.changes = {}
                    /\ outcome.comment \in {<<"Failed to remove file " \o N>>,
                                            <<"Failed to remove directory " \o N>>}
           /\ pre[N].kind = "none"
                 => /\ Returned /\ outcome.result
                    /\ outcome.changes = {}
                    /\ outcome.comment = <<"File " \o N \o " is not present">>
                    /\ fs = pre

C13_Witness ==
    /\ C13_Case /\ ncalls = 1 /\ ~want.rmfails
    /\ isdir(pre, N) /\ isfile(pre, B)
    /\ outcome.changes = {<<"removed", N>>}
    /\ fs[N].kind = "none" /\ fs[B].kind = "none"

(***************************************************************************)
(* C14.  Symlink with missing parent: when nothing exists at the parent    *)
(* path of name, symlink returns result = false with the comment           *)
(* 'Directory ... for symlink is not present' and creates no link, with    *)
(* makedirs set or not; with makedirs set the parent directory exists      *)
(* after the call, with makedirs unset the filesystem is unchanged.        *)
(***************************************************************************)
C14_Case == Called /\ want.kind = "symlink" /\ ~exists(pre, P)

C14_SymlinkMissingParent ==
    C14_Case
        => /\ Returned /\ ~outcome.result
           /\ outcome.comment = <<"Directory " \o P \o " for symlink is not present">>
           /\ outcome.changes = {}
           /\ ~lexists(fs, N)
           /\ want.makedirs => (isdir(fs, P) /\ \A q \in Paths \ {P} : fs[q] = pre[q])
           /\ ~want.makedirs => fs = pre

C14_Witness ==
    /\ C14_Case /\ ncalls = 1 /\ want.makedirs
    /\ ~outcome.result /\ isdir(fs, P) /\ ~lexists(fs, N)

(***************************************************************************)
(* C15.  Symlink over an occupied path (the parent directory exists):      *)
(* over a regular file, resp. a directory, symlink without force returns   *)
(* result = false with the file-exists, resp. directory-exists, comment    *)
(* and leaves the occupant; with force it removes the file, resp. the      *)
(* whole directory, creates the link to target and records new.  A link    *)
(* to another target is replaced by a link to target whatever force is.    *)
(***************************************************************************)
C15_Case == Called /\ want.kind = "symlink" /\ isdir(pre, P)
\* the name has become a link to target and nothing is left under it
C15_Linked ==
    /\ fs[N] = LinkEntry(want.target)
    /\ \A q \in Paths : IsUnder(q, N) => fs[q].kind = "none"
    /\ \A q \in Paths : ~(q = N \/ IsUnder(q, N)) => fs[q] = pre[q]

C15_SymlinkOccupied ==
    C15_Case
        => /\ (pre[N].kind = "file" /\ ~want.force)
                 => /\ Returned /\ ~outcome.result /\ fs = pre
                    /\ outcome.comment =
                         <<"File exists where the symlink " \o N \o " should be">>
           /\ (pre[N].kind = "dir" /\ ~want.force)
                 => /\ Returned /\ ~outcome.result /\ fs = pre
                    /\ outcome.comment =
                         <<"Direcotry exists where the symlink " \o N \o " should be">>
           /\ (pre[N].kind \in {"file", "dir"} /\ want.force)
                 => /\ Returned /\ outcome.result /\ C15_Linked
                    /\ <<"new", N>> \in outcome.changes
           /\ (pre[N].kind = "link" /\ pre[N].target # want.target)
                 => /\ Returned /\ outcome.result /\ C15_Linked

C15_Witness ==
    /\ C15_Case /\ ncalls = 1 /\ want.force
    /\ isdir(pre, N) /\ isfile(pre, A)
    /\ fs[N] = LinkEntry(want.target) /\ fs[A].kind = "none"
    /\ <<"new", N>> \in outcome.changes

(***************************************************************************)
(* C16.  Joint owner/group application: with dry-run off, managed and      *)
(* directory call the provider's chown exactly once, with the desired      *)
(* owner and the desired group, when a desired owner or group differs from *)
(* the actual one (a group-only difference included), and not at all when  *)
(* neither differs; set_mode is called only when a desired mode differs    *)
(* from the actual mode.                                                   *)
(***************************************************************************)
Calls(op) == {i \in 1..Len(plog) : plog[i][1] = op}

C16_Case == Called /\ ~test /\ PermKind /\ PermStage

C16_JointApplication ==
    C16_Case
        => /\ (Pending \cap {"user", "group"} # {})
                 => /\ Cardinality(Calls("chown")) = 1
                    /\ \A i \in Calls("chown") : plog[i] = Chown(want.user, want.group)
           /\ (Pending \cap {"user", "group"} = {}) => Calls("chown") = {}
           /\ Calls("set_mode") # {}
                 => /\ "mode" \in Pending
                    /\ \A i \in Calls("set_mode") : plog[i] = SetMode(WantMode)

C16_Witness ==
    /\ C16_Case /\ ncalls = 2
    /\ want.user # None /\ want.group # None
    /\ Pending = {"group"}
    /\ Cardinality(Calls("chown")) = 1
    /\ Chown(want.user, want.group) \in {plog[i] : i \in 1..Len(plog)}

(***************************************************************************)
(* C17.  Matching digests skip content work: when managed finds a regular  *)
(* file whose digest, taken with the hash type hash_file reported, equals  *)
(* the source's, it renders and copies nothing (a template kind that       *)
(* cannot be rendered does not matter), records no diff and still runs the *)
(* owner/group/mode stage; with nothing pending and dry-run off it returns *)
(* result = true, empty changes and 'File <path> is in the correct state'. *)
(***************************************************************************)
C17_Case ==
    /\ Called /\ want.kind = "managed" /\ want.source \in {FoundSource, BinSource}
    /\ isfile(pre, N) /\ pre[N].content = ContentOf(want.source)

C17_MatchingDigests ==
    C17_Case
        => /\ Returned
           /\ fs[N].kind = "file" /\ fs[N].content = pre[N].content
           /\ \A q \in Paths \ {N} : fs[q] = pre[q]
           /\ "diff" \notin Keys(outcome.changes)
           /\ PermStage
           /\ (~test /\ want.fail = {}) => (outcome.result /\ Failed = {}
                                            /\ Keys(outcome.changes) = Pending)
           /\ (~test /\ Pending = {})
                 => /\ outcome.result /\ outcome.changes = {} /\ fs = pre
                    /\ outcome.comment = <<"File " \o N \o " is in the correct state">>

C17_Witness ==
    /\ C17_Case /\ ncalls = 1 /\ ~test
    /\ want.source = BinSource /\ want.template = "bogus"
    /\ Pending = {} /\ PermStage
    /\ outcome.comment = <<"File " \o N \o " is in the correct state">>

(***************************************************************************)
(* C18.  Early failures leave the target untouched: a call that returns    *)
(* result = false because the source was not found (managed), because a    *)
(* regular file is at a directory's path (directory), because a            *)
(* non-directory is at the recurse root (recurse) or because a file or     *)
(* directory is at a symlink's path without force (symlink) has changed    *)
(* nothing in the filesystem and no owner, group or mode.                  *)
(***************************************************************************)
EarlyComments ==
    {<<"Source file " \o want.source \o " not found">>,
     <<"Specifed location " \o N \o " exists and is a file">>,
     <<"The path " \o N \o " exists and is not a directory">>,
     <<"File exists where the symlink " \o N \o " should be">>,
     <<"Direcotry exists where the symlink " \o N \o " should be">>}

C18_Case ==
    /\ Called /\ Returned /\ ~outcome.result
    /\ outcome.comment \in EarlyComments

C18_EarlyFailures ==
    /\ C18_Case => (fs = pre /\ plog = <<>> /\ outcome.changes = {})
    /\ (Called /\ want.kind = "managed" /\ want.source \notin {FoundSource, BinSource})
          => C18_Case
    /\ (Called /\ want.kind = "directory" /\ isfile(pre, N)) => C18_Case
    /\ (Called /\ want.kind = "recurse" /\ exists(pre, N) /\ ~isdir(pre, N))
          => C18_Case
    /\ (Called /\ want.kind = "symlink" /\ isdir(pre, P) /\ ~want.force
        /\ pre[N].kind \in {"file", "dir"}) => C18_Case

C18_Witness ==
    /\ C18_Case /\ ncalls = 1 /\ ~test
    /\ want.kind = "recurse" /\ want.source = TreeSource
    /\ isfile(pre, N) /\ fs = pre

(***************************************************************************)
(* C19.  symlink always returns a result and success means convergence:    *)
(* whatever occupies the name (nothing, a link to the target or to another *)
(* target, a regular file, a directory, another kind of entry) and         *)
(* whatever force and makedirs are, symlink returns a result record, and   *)
(* when the record has result = true the name is a link to target.         *)
(* Stated with the parent directory existing.                              *)
(***************************************************************************)
C19_SymlinkTotal ==
    (Called /\ want.kind = "symlink" /\ isdir(pre, P))
        => /\ Returned
           /\ outcome.result => fs[N] = LinkEntry(want.target)

(***************************************************************************)
(* C20.  managed success means converged content: whenever managed returns *)
(* result = true with dry-run off, the destination is a regular file with  *)
(* the desired content: the source artifact, or its rendering when a       *)
(* template kind is set.  Stated for a name that was a regular file or     *)
(* missing, and a template kind that renders.                              *)
(***************************************************************************)
C20_ManagedConverged ==
    (/\ Called /\ ~test /\ want.kind = "managed"
     /\ pre[N].kind \in {"none", "file"}
     /\ (want.template = None \/ (has_key("_" \o want.template) /\ want.renv = "ok"))
     /\ Returned /\ outcome.result)
        => (isfile(fs, N) /\ fs[N].content = Artifact)

====
